---- MODULE Spec2Model ----
(***************************************************************************)
(* pdf-images: the request pipeline of src/main.rs.                        *)
(*                                                                         *)
(* One POST / request is followed from the token check of                  *)
(* handle_pdf_upload through multipart extraction, process_pdf on the      *)
(* blocking pool, the JoinSet upload fan-out and the response mapping of   *)
(* AppError::into_response.  Strings are sequences of one-character        *)
(* strings, Option<T> is a sequence of length 0 (None) or 1 (Some).        *)
(***************************************************************************)
EXTENDS Integers, Sequences, FiniteSets, TLC

VARIABLES
    secret,     \* AppState.token: Option<BoxStr>
    query,      \* UploadQuery {format, token, pages, scale}
    multipart,  \* what the multipart body holds for the first field
    body,       \* the bytes of the first field (the uploaded document)
    pc,         \* position of handle_pdf_upload
    fieldRead,  \* multipart.next_field() has been polled
    proc,       \* what process_pdf did: load attempted / loaded / pages
                \* whose render was attempted / pages that rendered
    images,     \* Vec<PdfImage> returned by process_pdf (their names)
    tasks,      \* JoinSet: state of each spawned put_image task
    notified,   \* JoinSet: finished tasks not yet taken by join_next, oldest first
    output,     \* join_all: results taken so far, in the order taken
    store,      \* the bucket: set of object keys present
    puts,       \* the put_object requests sent to the bucket, oldest first
    response,   \* the HTTP response of the request
    parseIn,    \* PageSelection::from_str: input string
    parseOut,   \* PageSelection::from_str: result
    parsePc,    \* position of the from_str caller
    selA,       \* process_pdf called on two page expressions: the first
    selB,       \* ... the second
    selBody,    \* ... the document both calls get
    selOut,     \* ... the two results
    selPc,      \* position of that caller
    keyA,       \* process_pdf called for two requests: the first {bytes, query}
    keyB,       \* ... the second
    keyOk,      \* ... the pages that render in the first and in the second call
    keyOut,     \* ... the two results
    keyPc       \* position of that caller

pipeVars  == <<secret, query, multipart, body, pc, fieldRead, proc, images,
               tasks, notified, output, store, puts, response>>
parseVars == <<parseIn, parseOut, parsePc>>
selVars   == <<selA, selB, selBody, selOut, selPc>>
keyVars   == <<keyA, keyB, keyOk, keyOut, keyPc>>
vars      == <<pipeVars, parseVars, selVars, keyVars>>

(***************************************************************************)
(* Bounds                                                                  *)
(***************************************************************************)
MaxPages == 3
MaxLen == 4
MaxTokens == 2

None == <<>>
Some(x) == <<x>>

(***************************************************************************)
(* String helpers (std::str)                                               *)
(***************************************************************************)
Digits == {"0", "1", "2", "3", "4", "5", "6", "7", "8", "9"}

DigitVal(c) ==
    CASE c = "0" -> 0 [] c = "1" -> 1 [] c = "2" -> 2 [] c = "3" -> 3
      [] c = "4" -> 4 [] c = "5" -> 5 [] c = "6" -> 6 [] c = "7" -> 7
      [] c = "8" -> 8 [] c = "9" -> 9

\* index of the first occurrence of c in s, 0 when there is none
FirstIndex(s, c) ==
    IF \E i \in 1..Len(s) : s[i] = c
    THEN CHOOSE i \in 1..Len(s) : s[i] = c /\ \A j \in 1..(i - 1) : s[j] # c
    ELSE 0

\* str::split(','): the parts between the commas, empty parts included
RECURSIVE Split(_)
Split(s) ==
    LET i == FirstIndex(s, ",")
    IN  IF i = 0 THEN <<s>>
        ELSE <<SubSeq(s, 1, i - 1)>> \o Split(SubSeq(s, i + 1, Len(s)))

\* str::trim(): leading and trailing whitespace removed
RECURSIVE TrimStart(_)
TrimStart(s) ==
    IF s # <<>> /\ Head(s) = " " THEN TrimStart(Tail(s)) ELSE s

RECURSIVE TrimEnd(_)
TrimEnd(s) ==
    IF s # <<>> /\ s[Len(s)] = " " THEN TrimEnd(SubSeq(s, 1, Len(s) - 1)) ELSE s

Trim(s) == TrimEnd(TrimStart(s))

\* str::split_once('-'): None, or the text before and after the first '-'
SplitOnce(s) ==
    LET i == FirstIndex(s, "-")
    IN  IF i = 0 THEN None
        ELSE Some(<<SubSeq(s, 1, i - 1), SubSeq(s, i + 1, Len(s))>>)

RECURSIVE DecimalValue(_)
DecimalValue(s) ==
    IF s = <<>> THEN 0
    ELSE 10 * DecimalValue(SubSeq(s, 1, Len(s) - 1)) + DigitVal(s[Len(s)])

\* str::parse::<usize>(): an optional '+', then one or more ASCII digits.
\* None is the parse error.  (The strings of this model are short enough
\* that no value comes near usize::MAX.)
ParseUsize(s) ==
    LET d == IF s # <<>> /\ Head(s) = "+" THEN Tail(s) ELSE s
    IN  IF d = <<>> \/ \E i \in 1..Len(d) : d[i] \notin Digits
        THEN None
        ELSE Some(DecimalValue(d))

(***************************************************************************)
(* PageSelection                                                           *)
(***************************************************************************)
Ok(pages) == [ok |-> TRUE, pages |-> pages, msg |-> "none"]
InvalidPageRange(msg) == [ok |-> FALSE, pages |-> {}, msg |-> msg]

\* one `A-B` part of the loop of from_str; pages is the set built so far
RangePart(start, end, pages) ==
    LET s == ParseUsize(Trim(start))
        e == ParseUsize(Trim(end))
    IN  IF s = None THEN InvalidPageRange("invalid number")
        ELSE IF e = None THEN InvalidPageRange("invalid number")
        ELSE IF s[1] = 0 \/ e[1] = 0
             THEN InvalidPageRange("page numbers must be 1 or greater")
        ELSE IF s[1] > e[1] THEN InvalidPageRange("invalid range")
        ELSE Ok(pages \cup ((s[1] - 1)..(e[1] - 1)))

\* SinglePart without the conversion to a zero-based index
SinglePartOneIndexed(part, pages) ==
    LET p == ParseUsize(part)
    IN  IF p = None THEN InvalidPageRange("invalid number")
        ELSE IF p[1] = 0
             THEN InvalidPageRange("page numbers must be 1 or greater")
        ELSE Ok(pages \cup {p[1]})

\* one `N` part of the loop of from_str
SinglePart(part, pages) ==
    LET p == ParseUsize(part)
    IN  IF p = None THEN InvalidPageRange("invalid number")
        ELSE IF p[1] = 0
             THEN InvalidPageRange("page numbers must be 1 or greater")
        ELSE Ok(pages \cup {p[1] - 1})

\* the body of the for loop of from_str for one part
ParsePart(raw, pages) ==
    LET part == Trim(raw)
        so   == SplitOnce(part)
    IN  IF part = <<>> THEN Ok(pages)
        ELSE IF so # None THEN RangePart(so[1][1], so[1][2], pages)
        ELSE SinglePart(part, pages)

\* the for loop of from_str: the first failing part returns its error
RECURSIVE ParseParts(_, _)
ParseParts(parts, pages) ==
    IF parts = <<>> THEN Ok(pages)
    ELSE LET r == ParsePart(Head(parts), pages)
         IN  IF r.ok THEN ParseParts(Tail(parts), r.pages) ELSE r

\* from_str without the pages.is_empty() check
from_str_unchecked(input) == ParseParts(Split(input), {})

\* <PageSelection as FromStr>::from_str
from_str(input) ==
    LET r == ParseParts(Split(input), {})
    IN  IF ~r.ok THEN r
        ELSE IF r.pages = {} THEN InvalidPageRange("no valid pages specified")
        ELSE Ok(r.pages)

SetMax(S) == CHOOSE m \in S : \A x \in S : x <= m

\* validate with > in place of >=
validateOffByOne(sel, total_pages) ==
    ~(sel # {} /\ SetMax(sel) > total_pages)

\* PageSelection::validate: TRUE is Ok(()), FALSE is Err(InvalidPageRange)
validate(sel, total_pages) ==
    ~(sel # {} /\ SetMax(sel) >= total_pages)

\* PageSelection::contains
contains(sel, page) == page \in sel

(***************************************************************************)
(* OutputFormat                                                            *)
(***************************************************************************)
OutputFormat == {"Png", "Jpeg", "Gif", "WebP", "Pnm", "Tiff", "Tga", "Bmp",
                 "Ico", "Hdr", "OpenExr", "Farbfeld", "Avif", "Qoi"}

\* extension with the arm of OpenExr copied from Hdr
extension_exr_as_hdr(format) ==
    CASE format = "Png" -> <<"p", "n", "g">>
      [] format = "Jpeg" -> <<"j", "p", "g">>
      [] format = "Gif" -> <<"g", "i", "f">>
      [] format = "WebP" -> <<"w", "e", "b", "p">>
      [] format = "Pnm" -> <<"p", "n", "m">>
      [] format = "Tiff" -> <<"t", "i", "f", "f">>
      [] format = "Tga" -> <<"t", "g", "a">>
      [] format = "Bmp" -> <<"b", "m", "p">>
      [] format = "Ico" -> <<"i", "c", "o">>
      [] format = "Hdr" -> <<"h", "d", "r">>
      [] format = "OpenExr" -> <<"h", "d", "r">>
      [] format = "Farbfeld" -> <<"f", "f">>
      [] format = "Avif" -> <<"a", "v", "i", "f">>
      [] format = "Qoi" -> <<"q", "o", "i">>

\* OutputFormat::extension, the text as characters
extension(format) ==
    CASE format = "Png" -> <<"p", "n", "g">>
      [] format = "Jpeg" -> <<"j", "p", "g">>
      [] format = "Gif" -> <<"g", "i", "f">>
      [] format = "WebP" -> <<"w", "e", "b", "p">>
      [] format = "Pnm" -> <<"p", "n", "m">>
      [] format = "Tiff" -> <<"t", "i", "f", "f">>
      [] format = "Tga" -> <<"t", "g", "a">>
      [] format = "Bmp" -> <<"b", "m", "p">>
      [] format = "Ico" -> <<"i", "c", "o">>
      [] format = "Hdr" -> <<"h", "d", "r">>
      [] format = "OpenExr" -> <<"e", "x", "r">>
      [] format = "Farbfeld" -> <<"f", "f">>
      [] format = "Avif" -> <<"a", "v", "i", "f">>
      [] format = "Qoi" -> <<"q", "o", "i">>

(***************************************************************************)
(* process_pdf                                                             *)
(***************************************************************************)
\* Uploaded bytes: a document pdfium can load, with its page count, or
\* bytes that are no loadable document.
Pdf(n) == [kind |-> "pdf", pages |-> n]
Junk == [kind |-> "junk", pages |-> 0]
Bytes == {Pdf(n) : n \in 0..MaxPages} \cup {Junk}

\* Pdfium::load_pdf_from_byte_slice followed by document.pages().len():
\* None is Err(PdfiumError)
load_pdf_from_byte_slice(bytes) ==
    IF bytes.kind = "pdf" THEN Some(bytes.pages) ELSE None

\* blake3::hash(bytes).to_hex(): a function of the bytes alone, taken to be
\* collision free
blake3(bytes) == <<"blake3", bytes.kind, bytes.pages>>

\* format!("{id}-{idx}.{ext}"): the three values the name is made of
ImageName(id, idx, ext) == <<id, idx, ext>>

DigitChar(d) == CHOOSE c \in Digits : DigitVal(c) = d

\* usize as Display: the decimal numeral
RECURSIVE DecimalText(_)
DecimalText(n) ==
    IF n < 10 THEN <<DigitChar(n)>>
    ELSE DecimalText(n \div 10) \o <<DigitChar(n % 10)>>

\* Hash::to_hex: hexadecimal text of one length for every hash (two
\* characters here)
to_hex(id) == <<IF id[2] = "pdf" THEN "a" ELSE "f", DigitChar(id[3])>>

\* format!("{id}-{idx}.{ext}"): the text of the name
KeyText(name) ==
    to_hex(name[1]) \o <<"-">> \o DecimalText(name[2]) \o <<".">> \o name[3]

\* the scale bounds of process_pdf, in hundredths: 0.1 and 10.0
ScaleMin == 10
ScaleMax == 1000

\* an f32: a number, in hundredths, or NaN
F32(v) == [nan |-> FALSE, v |-> v]
NaN == [nan |-> TRUE, v |-> 0]

\* the scale check with the upper bound excluded
ScaleInRangeExclusive(scale) ==
    ~scale.nan /\ ScaleMin <= scale.v /\ scale.v < ScaleMax

\* (0.1..=10.0).contains(&scale): no comparison with NaN holds
ScaleInRange(scale) ==
    ~scale.nan /\ ScaleMin <= scale.v /\ scale.v <= ScaleMax

\* the .filter() closure: the page is selected
PageSelected(page_selection, idx) ==
    IF page_selection = None THEN TRUE ELSE contains(page_selection[1], idx)

\* RenderPages giving up at the first page whose render or encode fails
RECURSIVE RenderPagesStopAtFailure(_, _, _, _, _, _)
RenderPagesStopAtFailure(idx, total_pages, page_selection, renderOk, id, ext) ==
    IF idx >= total_pages THEN <<>>
    ELSE IF ~PageSelected(page_selection, idx)
    THEN RenderPagesStopAtFailure(idx + 1, total_pages, page_selection,
                                  renderOk, id, ext)
    ELSE IF idx \notin renderOk THEN <<>>
    ELSE <<ImageName(id, idx, ext)>>
         \o RenderPagesStopAtFailure(idx + 1, total_pages, page_selection,
                                     renderOk, id, ext)

\* RenderPages walking the pages from the last to the first
RECURSIVE RenderPagesDescending(_, _, _, _, _, _)
RenderPagesDescending(idx, total_pages, page_selection, renderOk, id, ext) ==
    IF idx >= total_pages THEN <<>>
    ELSE RenderPagesDescending(idx + 1, total_pages, page_selection, renderOk,
                               id, ext)
         \o (IF PageSelected(page_selection, idx) /\ idx \in renderOk
             THEN <<ImageName(id, idx, ext)>> ELSE <<>>)

\* document.pages().iter().enumerate().filter(..).flat_map(..).collect():
\* pages idx..total-1 in document order; a page whose render or encode
\* fails (idx \notin renderOk) yields nothing
RECURSIVE RenderPages(_, _, _, _, _, _)
RenderPages(idx, total_pages, page_selection, renderOk, id, ext) ==
    IF idx >= total_pages THEN <<>>
    ELSE (IF PageSelected(page_selection, idx) /\ idx \in renderOk
          THEN <<ImageName(id, idx, ext)>> ELSE <<>>)
         \o RenderPages(idx + 1, total_pages, page_selection, renderOk, id, ext)

ProcErr(err, loadAttempted, loaded) ==
    [err |-> err, images |-> <<>>, loadAttempted |-> loadAttempted,
     loaded |-> loaded, rendered |-> {}, ok |-> {}]

\* process_pdf with the scale made part of the name's id
process_pdf_scaled(bytes, q, bound, renderOk) ==
    LET doc == load_pdf_from_byte_slice(bytes)
        sel == IF q.pages = None THEN Ok({}) ELSE from_str(q.pages[1])
        page_selection == IF q.pages = None THEN None ELSE Some(sel.pages)
    IN  IF ~bound THEN ProcErr("Pdfium", FALSE, FALSE)
        ELSE IF doc = None THEN ProcErr("Pdfium", TRUE, FALSE)
        ELSE IF ~sel.ok THEN ProcErr("InvalidPageRange", TRUE, TRUE)
        ELSE IF page_selection # None /\ ~validate(page_selection[1], doc[1])
             THEN ProcErr("InvalidPageRange", TRUE, TRUE)
        ELSE IF q.scale # None /\ ~ScaleInRange(q.scale[1])
             THEN ProcErr("InvalidScale", TRUE, TRUE)
        ELSE [err |-> "none",
              images |-> RenderPages(0, doc[1], page_selection, renderOk,
                                     <<blake3(bytes), q.scale>>,
                                     extension(q.format)),
              loadAttempted |-> TRUE,
              loaded |-> TRUE,
              rendered |-> {i \in 0..(doc[1] - 1) :
                               PageSelected(page_selection, i)},
              ok |-> {i \in 0..(doc[1] - 1) :
                         PageSelected(page_selection, i) /\ i \in renderOk}]

\* process_pdf(bytes, query).  bound: a pdfium library could be bound;
\* renderOk: the pages whose render and encode succeed.
process_pdf(bytes, q, bound, renderOk) ==
    LET doc == load_pdf_from_byte_slice(bytes)
        sel == IF q.pages = None THEN Ok({}) ELSE from_str(q.pages[1])
        page_selection == IF q.pages = None THEN None ELSE Some(sel.pages)
    IN  IF ~bound THEN ProcErr("Pdfium", FALSE, FALSE)
        ELSE IF doc = None THEN ProcErr("Pdfium", TRUE, FALSE)
        ELSE IF ~sel.ok THEN ProcErr("InvalidPageRange", TRUE, TRUE)
        ELSE IF page_selection # None /\ ~validate(page_selection[1], doc[1])
             THEN ProcErr("InvalidPageRange", TRUE, TRUE)
        ELSE IF q.scale # None /\ ~ScaleInRange(q.scale[1])
             THEN ProcErr("InvalidScale", TRUE, TRUE)
        ELSE [err |-> "none",
              images |-> RenderPages(0, doc[1], page_selection, renderOk,
                                     blake3(bytes), extension(q.format)),
              loadAttempted |-> TRUE,
              loaded |-> TRUE,
              rendered |-> {i \in 0..(doc[1] - 1) :
                               PageSelected(page_selection, i)},
              ok |-> {i \in 0..(doc[1] - 1) :
                         PageSelected(page_selection, i) /\ i \in renderOk}]

(***************************************************************************)
(* AppError::into_response and the success response                        *)
(***************************************************************************)
\* the status table with a document that does not load made a client error
StatusOfLoad400(err) ==
    CASE err = "Pdfium" -> 400
      [] err = "Multipart" -> 400
      [] err = "FieldNotFound" -> 400
      [] err = "Task" -> 500
      [] err = "S3" -> 500
      [] err = "Unauthorized" -> 401
      [] err = "InvalidPageRange" -> 400
      [] err = "InvalidScale" -> 400

\* the status of each AppError variant
StatusOf(err) ==
    CASE err = "Pdfium" -> 500
      [] err = "Multipart" -> 400
      [] err = "FieldNotFound" -> 400
      [] err = "Task" -> 500
      [] err = "S3" -> 500
      [] err = "Unauthorized" -> 401
      [] err = "InvalidPageRange" -> 400
      [] err = "InvalidScale" -> 400

\* the message of each AppError variant (the formatted detail left out)
MessageOf(err) ==
    CASE err = "Pdfium" -> "Internal Server Error"
      [] err = "Multipart" -> "Failed to read PDF file from request"
      [] err = "FieldNotFound" -> "Form does not contain any fields"
      [] err = "Task" -> "Internal Server Error"
      [] err = "S3" -> "Internal Server Error"
      [] err = "Unauthorized" -> "Invalid or missing token"
      [] err = "InvalidPageRange" -> "Invalid page range"
      [] err = "InvalidScale" -> "Invalid scale"

\* (status, Json(ErrorResponse { message })): no success flag, no images
into_response(err) ==
    [status |-> StatusOf(err), err |-> err, images |-> <<>>,
     success |-> FALSE, message |-> MessageOf(err)]

\* Ok(Json(UploadResponse { success: true, images })): status 200, no message
UploadResponse(names) ==
    [status |-> 200, err |-> "none", images |-> names,
     success |-> TRUE, message |-> "none"]

NoResponse ==
    [status |-> 0, err |-> "pending", images |-> <<>>,
     success |-> FALSE, message |-> "none"]

(***************************************************************************)
(* Request inputs                                                          *)
(***************************************************************************)
Secrets == {None, Some("s3cret")}
Tokens == {None, Some("s3cret"), Some("guess")}

\* `pages` query values of the pipeline: absent, or one of these strings
PagesInputs ==
    {None,
     Some(<<"1">>), Some(<<"2", ",", "1">>), Some(<<"1", "-", "2">>),
     Some(<<" ", "3">>), Some(<<"9">>), Some(<<"0">>),
     Some(<<"2", "-", "1">>), Some(<<"a">>), Some(<<>>)}

\* `scale` query values: absent, 0.05, 0.1, 10.0, 15, NaN
ScaleInputs ==
    {None, Some(F32(5)), Some(F32(10)), Some(F32(1000)), Some(F32(1500)),
     Some(NaN)}

FormatInputs == {"Png", "Jpeg"}

UploadQuery ==
    [format : FormatInputs, token : Tokens, pages : PagesInputs,
     scale : ScaleInputs]

\* the multipart body: no field, a first field whose header or whose body
\* cannot be decoded, or a first field that reads to the end
Multiparts == {"empty", "bad_field", "bad_bytes", "file"}

NoProc == ProcErr("pending", FALSE, FALSE)

(***************************************************************************)
(* handle_pdf_upload                                                       *)
(***************************************************************************)
\* the token check with any provided token accepted
TokenAcceptedIfPresent(expected_token, provided_token) ==
    expected_token = None \/ provided_token # None

\* the token check: the match of lines 376-381 lets the request through
TokenAccepted(expected_token, provided_token) ==
    \/ expected_token = None
    \/ provided_token # None /\ provided_token[1] = expected_token[1]

\* `return Err(e)` / `?`: the handler ends with the error's response
Fail(err) ==
    /\ response' = into_response(err)
    /\ pc' = "done"

PipeInit ==
    /\ secret \in Secrets
    /\ query \in UploadQuery
    /\ multipart \in Multiparts
    /\ body \in (IF multipart = "file" THEN Bytes ELSE {Junk})
    /\ pc = "gate"
    /\ fieldRead = FALSE
    /\ proc = NoProc
    /\ images = <<>>
    /\ tasks = <<>>
    /\ notified = <<>>
    /\ output = <<>>
    /\ store \in {{}, {ImageName(blake3(Pdf(1)), 0, extension("Png"))}}
    /\ puts = <<>>
    /\ response = NoResponse

PipeIdle ==
    /\ secret = None
    /\ query = [format |-> "Png", token |-> None, pages |-> None, scale |-> None]
    /\ multipart = "empty"
    /\ body = Junk
    /\ pc = "idle"
    /\ fieldRead = FALSE
    /\ proc = NoProc
    /\ images = <<>>
    /\ tasks = <<>>
    /\ notified = <<>>
    /\ output = <<>>
    /\ store = {}
    /\ puts = <<>>
    /\ response = NoResponse

\* the token check made after the first field has been polled
CheckTokenAfterField ==
    /\ pc = "gate"
    /\ IF TokenAccepted(secret, query.token)
       THEN pc' = "next_field" /\ response' = response /\ fieldRead' = fieldRead
       ELSE Fail("Unauthorized") /\ fieldRead' = TRUE
    /\ UNCHANGED <<secret, query, multipart, body, proc, images, tasks,
                   notified, output, store, puts>>

\* lines 376-381
CheckToken ==
    /\ pc = "gate"
    /\ IF TokenAccepted(secret, query.token)
       THEN pc' = "next_field" /\ response' = response
       ELSE Fail("Unauthorized")
    /\ UNCHANGED <<secret, query, multipart, body, fieldRead, proc, images,
                   tasks, notified, output, store, puts>>

\* lines 383-386: multipart.next_field().await?.ok_or_else(FieldNotFound)?
NextField ==
    /\ pc = "next_field"
    /\ fieldRead' = TRUE
    /\ CASE multipart = "bad_field" -> Fail("Multipart")
         [] multipart = "empty" -> Fail("FieldNotFound")
         [] OTHER -> pc' = "bytes" /\ response' = response
    /\ UNCHANGED <<secret, query, multipart, body, proc, images, tasks,
                   notified, output, store, puts>>

\* line 388: field.bytes().await?
FieldBytes ==
    /\ pc = "bytes"
    /\ IF multipart = "bad_bytes"
       THEN Fail("Multipart")
       ELSE pc' = "render" /\ response' = response
    /\ UNCHANGED <<secret, query, multipart, body, fieldRead, proc, images,
                   tasks, notified, output, store, puts>>

\* the render task dispatching each page's upload as soon as the page is
\* rendered: a task that fails after its first page leaves an upload behind
RenderTaskEager ==
    /\ pc = "render"
    /\ \E joined \in BOOLEAN, bound \in BOOLEAN,
          renderOk \in SUBSET (0..(body.pages - 1)) :
         LET r == process_pdf(body, query, bound, renderOk)
         IN  /\ proc' = [r EXCEPT !.images = <<>>,
                                   !.err = IF joined THEN r.err ELSE "JoinError"]
             /\ IF ~joined
                THEN /\ Fail("Task")
                     /\ images' = IF r.images = <<>> THEN <<>> ELSE <<r.images[1]>>
                     /\ tasks' = [i \in 1..Len(images') |-> "running"]
                ELSE IF r.err # "none"
                THEN Fail(r.err) /\ images' = <<>> /\ tasks' = tasks
                ELSE /\ images' = r.images
                     /\ tasks' = tasks
                     /\ pc' = "spawn"
                     /\ response' = response
    /\ UNCHANGED <<secret, query, multipart, body, fieldRead, notified,
                   output, store, puts>>

\* line 389: spawn_blocking(move || process_pdf(&data, query)).await??
\* The blocking task may end in a JoinError (joined = FALSE) instead of
\* returning.
RenderTask ==
    /\ pc = "render"
    /\ \E joined \in BOOLEAN, bound \in BOOLEAN,
          renderOk \in SUBSET (0..(body.pages - 1)) :
         LET r == process_pdf(body, query, bound, renderOk)
         IN  /\ proc' = [r EXCEPT !.images = <<>>,
                                   !.err = IF joined THEN r.err ELSE "JoinError"]
             /\ IF ~joined THEN Fail("Task") /\ images' = <<>>
                ELSE IF r.err # "none" THEN Fail(r.err) /\ images' = <<>>
                ELSE /\ images' = r.images
                     /\ pc' = "spawn"
                     /\ response' = response
    /\ UNCHANGED <<secret, query, multipart, body, fieldRead, tasks,
                   notified, output, store, puts>>

\* lines 393-396: one iteration of the for loop, set.spawn(put_image(image))
SpawnUpload ==
    /\ pc = "spawn"
    /\ Len(tasks) < Len(images)
    /\ tasks' = Append(tasks, "running")
    /\ UNCHANGED <<secret, query, multipart, body, pc, fieldRead, proc,
                   images, notified, output, store, puts, response>>

\* line 398: the for loop is over, set.join_all() is awaited
JoinAll ==
    /\ pc = "spawn"
    /\ Len(tasks) = Len(images)
    /\ pc' = "join"
    /\ UNCHANGED <<secret, query, multipart, body, fieldRead, proc, images,
                   tasks, notified, output, store, puts, response>>

\* the bucket after put_object of key: written on success only
StoreAfterPut(objects, key, ok) ==
    IF ok THEN objects \cup {key} ELSE objects

\* put_image that sends a failed put again instead of returning the error
put_image_retry(i) ==
    /\ i \in 1..Len(tasks)
    /\ tasks[i] = "running"
    /\ puts' = Append(puts, images[i])
    /\ \E ok \in BOOLEAN :
         /\ tasks' = [tasks EXCEPT ![i] = IF ok THEN "ok" ELSE "running"]
         /\ store' = StoreAfterPut(store, images[i], ok)
         /\ notified' = IF ok THEN Append(notified, i) ELSE notified
         /\ ok \/ Len(puts) < 2 * Len(images)
    /\ UNCHANGED <<secret, query, multipart, body, pc, fieldRead, proc,
                   images, output, response>>

\* ObjectStorage::put_image of the i-th image, run by its spawned task:
\* one put_object is sent; it succeeds (Ok(image.name)) or fails (Err(S3));
\* the finished task is queued for join_next
put_image(i) ==
    /\ i \in 1..Len(tasks)
    /\ tasks[i] = "running"
    /\ puts' = Append(puts, images[i])
    /\ \E ok \in BOOLEAN :
         /\ tasks' = [tasks EXCEPT ![i] = IF ok THEN "ok" ELSE "err"]
         /\ store' = StoreAfterPut(store, images[i], ok)
    /\ notified' = Append(notified, i)
    /\ UNCHANGED <<secret, query, multipart, body, pc, fieldRead, proc,
                   images, output, response>>

PutImage == \E i \in 1..MaxPages + 1 : put_image(i)

\* join_all: one join_next().await that yields a finished task's result
JoinNext ==
    /\ pc = "join"
    /\ notified # <<>>
    /\ output' = Append(output, Head(notified))
    /\ notified' = Tail(notified)
    /\ UNCHANGED <<secret, query, multipart, body, pc, fieldRead, proc,
                   images, tasks, store, puts, response>>

\* a join that stops at the first failed result
JoinSetEmptyFailFast(spawned, joined) ==
    \/ Len(joined) = Len(spawned)
    \/ \E k \in 1..Len(joined) : spawned[joined[k]] = "err"

\* join_all returns when join_next yields None: the set holds no task
JoinSetEmpty(spawned, joined) == Len(joined) = Len(spawned)

\* a collect that drops the failed results and keeps the rest
RECURSIVE OkNames(_, _, _)
OkNames(results, state, names) ==
    IF results = <<>> THEN <<>>
    ELSE (IF state[Head(results)] = "ok" THEN <<names[Head(results)]>> ELSE <<>>)
         \o OkNames(Tail(results), state, names)

CollectSuccessful(results, state, names) ==
    UploadResponse(OkNames(results, state, names))

\* .into_iter().collect::<Result<Vec<_>, _>>(): the names in the order of
\* the results, or the error when a result is an Err
Collect(results, state, names) ==
    IF \E k \in 1..Len(results) : state[results[k]] = "err"
    THEN into_response("S3")
    ELSE UploadResponse([k \in 1..Len(results) |-> names[results[k]]])

\* a handler that dispatches the uploads again when one of them has failed
RespondResubmit ==
    /\ pc = "join"
    /\ JoinSetEmpty(tasks, output)
    /\ IF Collect(output, tasks, images).err = "S3" /\ Len(puts) <= Len(images)
       THEN /\ pc' = "spawn"
            /\ tasks' = <<>>
            /\ notified' = <<>>
            /\ output' = <<>>
            /\ response' = response
       ELSE /\ response' = Collect(output, tasks, images)
            /\ pc' = "done"
            /\ UNCHANGED <<tasks, notified, output>>
    /\ UNCHANGED <<secret, query, multipart, body, fieldRead, proc, images,
                   store, puts>>

\* lines 398-407: join_all has returned; collect and respond
Respond ==
    /\ pc = "join"
    /\ JoinSetEmpty(tasks, output)
    /\ response' = Collect(output, tasks, images)
    /\ pc' = "done"
    /\ UNCHANGED <<secret, query, multipart, body, fieldRead, proc, images,
                   tasks, notified, output, store, puts>>

(***************************************************************************)
(* PageSelection::from_str on its own                                      *)
(***************************************************************************)
Alphabet == {"0", "1", "2", "+", "-", ",", " ", "a"}

Strings(n) == UNION {[1..k -> Alphabet] : k \in 0..n}

ParseExamples ==
    {<<"2", ",", "4", "-", "5">>, <<"0", "-", "2">>, <<"1", ",", "3">>,
     <<"1", "-", "2", ",", "2", "-", "3">>, <<" ", ",", " ", ",">>}

NoParse == InvalidPageRange("pending")

ParseInit ==
    /\ parseIn \in Strings(MaxLen) \cup ParseExamples
    /\ parseOut = NoParse
    /\ parsePc = "start"

ParseIdle ==
    /\ parseIn = <<>>
    /\ parseOut = NoParse
    /\ parsePc = "idle"

\* p.parse::<PageSelection>()
Parse ==
    /\ parsePc = "start"
    /\ parseOut' = from_str(parseIn)
    /\ parsePc' = "done"
    /\ UNCHANGED <<parseIn, pipeVars, selVars, keyVars>>

(***************************************************************************)
(* process_pdf on two page expressions over the same document              *)
(***************************************************************************)
SelTokens == {<<"1">>, <<"2">>, <<"1", "-", "2">>, <<"2", "-", "3">>}

TokenSeqs == UNION {[1..k -> SelTokens] : k \in 1..MaxTokens}

\* the tokens joined by commas
RECURSIVE JoinTokens(_)
JoinTokens(toks) ==
    IF Len(toks) = 1 THEN toks[1]
    ELSE toks[1] \o <<",">> \o JoinTokens(Tail(toks))

SelQuery(toks) ==
    [format |-> "Png", token |-> None, pages |-> Some(JoinTokens(toks)),
     scale |-> None]

SelInit ==
    /\ selA \in TokenSeqs
    /\ selB \in TokenSeqs
    /\ selBody \in {Pdf(MaxPages - 1), Pdf(MaxPages)}
    /\ selOut = <<NoProc, NoProc>>
    /\ selPc = "start"

SelIdle ==
    /\ selA = <<>>
    /\ selB = <<>>
    /\ selBody = Junk
    /\ selOut = <<NoProc, NoProc>>
    /\ selPc = "idle"

\* both calls see the same pages render
ProcessBoth ==
    /\ selPc = "start"
    /\ \E renderOk \in SUBSET (0..(selBody.pages - 1)) :
         selOut' = <<process_pdf(selBody, SelQuery(selA), TRUE, renderOk),
                     process_pdf(selBody, SelQuery(selB), TRUE, renderOk)>>
    /\ selPc' = "done"
    /\ UNCHANGED <<selA, selB, selBody, pipeVars, parseVars, keyVars>>

(***************************************************************************)
(* process_pdf for two requests                                            *)
(***************************************************************************)
KeyBodies == {Pdf(MaxPages - 1), Pdf(MaxPages)}

KeyPages == {None, Some(<<"1">>), Some(<<"2", ",", "1">>)}

KeyScales == {None, Some(F32(ScaleMin)), Some(F32(ScaleMax))}

KeyTokens == {None, Some("guess")}

KeyRequest(bytes, format, pages, scale, token) ==
    [bytes |-> bytes,
     query |-> [format |-> format, token |-> token, pages |-> pages,
                scale |-> scale]]

\* a resubmission: the same bytes, format and pages; scale and token free
Resubmissions ==
    {<<KeyRequest(b, f, p, x[1], x[2]), KeyRequest(b, f, p, y[1], y[2])>> :
        b \in KeyBodies, f \in FormatInputs, p \in KeyPages,
        x \in KeyScales \X KeyTokens, y \in KeyScales \X KeyTokens}

\* two requests for all pages, of any two documents in any two formats
FormatPairs ==
    {<<KeyRequest(b, f, None, None, None), KeyRequest(c, g, None, None, None)>> :
        b \in KeyBodies, c \in KeyBodies, f \in OutputFormat, g \in OutputFormat}

KeyInit ==
    /\ \E r \in Resubmissions \cup FormatPairs : keyA = r[1] /\ keyB = r[2]
    /\ keyOk = <<{}, {}>>
    /\ keyOut = <<NoProc, NoProc>>
    /\ keyPc = "start"

KeyIdle ==
    /\ keyA = KeyRequest(Junk, "Png", None, None, None)
    /\ keyB = KeyRequest(Junk, "Png", None, None, None)
    /\ keyOk = <<{}, {}>>
    /\ keyOut = <<NoProc, NoProc>>
    /\ keyPc = "idle"

\* the two calls; the pages that render are each call's own
ProcessTwice ==
    /\ keyPc = "start"
    /\ \E okA \in SUBSET (0..(keyA.bytes.pages - 1)),
          okB \in SUBSET (0..(keyB.bytes.pages - 1)) :
         /\ keyOk' = <<okA, okB>>
         /\ keyOut' = <<process_pdf(keyA.bytes, keyA.query, TRUE, okA),
                        process_pdf(keyB.bytes, keyB.query, TRUE, okB)>>
    /\ keyPc' = "done"
    /\ UNCHANGED <<keyA, keyB, pipeVars, parseVars, selVars>>

(***************************************************************************)
(* Specifications                                                          *)
(***************************************************************************)
Init == PipeInit /\ ParseIdle /\ SelIdle /\ KeyIdle

Next ==
    \/ CheckToken /\ UNCHANGED <<parseVars, selVars, keyVars>>
    \/ NextField /\ UNCHANGED <<parseVars, selVars, keyVars>>
    \/ FieldBytes /\ UNCHANGED <<parseVars, selVars, keyVars>>
    \/ RenderTask /\ UNCHANGED <<parseVars, selVars, keyVars>>
    \/ SpawnUpload /\ UNCHANGED <<parseVars, selVars, keyVars>>
    \/ PutImage /\ UNCHANGED <<parseVars, selVars, keyVars>>
    \/ JoinAll /\ UNCHANGED <<parseVars, selVars, keyVars>>
    \/ JoinNext /\ UNCHANGED <<parseVars, selVars, keyVars>>
    \/ Respond /\ UNCHANGED <<parseVars, selVars, keyVars>>

Spec == Init /\ [][Next]_vars

\* the runtime keeps polling the handler, the blocking render task ends and
\* every spawned upload task runs to its end
SpecLive == Init /\ [][Next]_vars /\ WF_vars(Next)

InitParse == PipeIdle /\ ParseInit /\ SelIdle /\ KeyIdle

NextParse == Parse

SpecParse == InitParse /\ [][NextParse]_vars

InitSel == PipeIdle /\ ParseIdle /\ SelInit /\ KeyIdle

NextSel == ProcessBoth

SpecSel == InitSel /\ [][NextSel]_vars

InitKey == PipeIdle /\ ParseIdle /\ SelIdle /\ KeyInit

NextKey == ProcessTwice

SpecKey == InitKey /\ [][NextKey]_vars

(***************************************************************************)
(* The page-expression grammar, stated on the text of the expression       *)
(***************************************************************************)
\* the comma-separated tokens of s: its maximal comma-free segments
Segments(s) ==
    {SubSeq(s, x[1], x[2]) :
        x \in {y \in (1..(Len(s) + 1)) \X (0..Len(s)) :
                 /\ y[2] >= y[1] - 1
                 /\ \A k \in y[1]..y[2] : s[k] # ","
                 /\ (y[1] = 1 \/ s[y[1] - 1] = ",")
                 /\ (y[2] = Len(s) \/ s[y[2] + 1] = ",")}}

IsBlank(t) == \A k \in 1..Len(t) : t[k] = " "

\* t without its surrounding blanks (t is not blank)
Strip(t) ==
    LET a == CHOOSE k \in 1..Len(t) : t[k] # " " /\ \A j \in 1..(k - 1) : t[j] = " "
        b == CHOOSE k \in 1..Len(t) : t[k] # " " /\ \A j \in (k + 1)..Len(t) : t[j] = " "
    IN  SubSeq(t, a, b)

\* the tokens that are not skipped, without their surrounding blanks
TokensOf(s) == {Strip(t) : t \in {u \in Segments(s) : ~IsBlank(u)}}

\* a decimal numeral
IsNumeral(t) == t # <<>> /\ \A k \in 1..Len(t) : t[k] \in Digits

\* a number: a decimal numeral, with or without a sign in front and blanks
\* around it
IsNumber(t) ==
    /\ ~IsBlank(t)
    /\ LET u == Strip(t)
       IN  IsNumeral(u) \/ (u[1] = "+" /\ IsNumeral(Tail(u)))

NumberValue(t) ==
    LET u == Strip(t)
    IN  IF u[1] = "+" THEN DecimalValue(Tail(u)) ELSE DecimalValue(u)

\* the endpoint texts <<A, B>> of a token that reads as a range of numbers
RangeSplits(t) ==
    {<<SubSeq(t, 1, k - 1), SubSeq(t, k + 1, Len(t))>> :
        k \in {j \in 1..Len(t) :
                 /\ t[j] = "-"
                 /\ IsNumber(SubSeq(t, 1, j - 1))
                 /\ IsNumber(SubSeq(t, j + 1, Len(t)))}}

\* a token with a hyphen reads as a range; it is malformed when an
\* endpoint is no number, is zero, or A > B
BadRangeToken(t) ==
    \/ RangeSplits(t) = {}
    \/ \E ab \in RangeSplits(t) :
         \/ NumberValue(ab[1]) = 0
         \/ NumberValue(ab[2]) = 0
         \/ NumberValue(ab[1]) > NumberValue(ab[2])

\* a token without a hyphen is malformed when it is no number or is zero
BadSingleToken(t) == ~IsNumber(t) \/ NumberValue(t) = 0

BadToken(t) ==
    IF \E k \in 1..Len(t) : t[k] = "-" THEN BadRangeToken(t) ELSE BadSingleToken(t)

\* empty, or nothing but skipped tokens
AllSkipped(s) == TokensOf(s) = {}

Malformed(s) == AllSkipped(s) \/ \E t \in TokensOf(s) : BadToken(t)

\* the grammar of the pages parameter: N with N >= 1, or A-B with
\* 1 <= A <= B, numerals only
GoodSingle(t) == IsNumeral(t) /\ DecimalValue(t) >= 1

GoodRange(t) ==
    \E k \in 1..Len(t) :
        /\ t[k] = "-"
        /\ IsNumeral(SubSeq(t, 1, k - 1))
        /\ IsNumeral(SubSeq(t, k + 1, Len(t)))
        /\ 1 <= DecimalValue(SubSeq(t, 1, k - 1))
        /\ DecimalValue(SubSeq(t, 1, k - 1)) <= DecimalValue(SubSeq(t, k + 1, Len(t)))

WellFormed(s) ==
    /\ TokensOf(s) # {}
    /\ \A t \in TokensOf(s) : GoodSingle(t) \/ GoodRange(t)

\* the zero-indexed pages a well-formed token names
TokenPages(t) ==
    IF GoodSingle(t) THEN {DecimalValue(t) - 1}
    ELSE UNION {(DecimalValue(SubSeq(t, 1, k - 1)) - 1)..
                (DecimalValue(SubSeq(t, k + 1, Len(t))) - 1) :
                   k \in {j \in 1..Len(t) : t[j] = "-"}}

\* the zero-indexed pages a well-formed expression names
Denotes(s) == UNION {TokenPages(t) : t \in TokensOf(s)}

(***************************************************************************)
(* Properties of the request pipeline (Spec)                               *)
(***************************************************************************)
Finished(i) == tasks[i] \in {"ok", "err"}

\* the key of page idx of the request's document
KeyOf(idx) == ImageName(blake3(body), idx, extension(query.format))

\* C1: for a document whose P pages all render, with no pages parameter
\* and every upload succeeding, the success response lists exactly the P
\* keys, the i-th being the key of page index i, whatever the order in
\* which the upload tasks finish.
C1_ResponseInPageOrder ==
    (/\ pc = "done"
     /\ response.status = 200
     /\ query.pages = None
     /\ Len(images) = body.pages)
    => response.images = [i \in 1..body.pages |-> KeyOf(i - 1)]

\* C2: the response of a request that reached the fan-out, success or
\* failure, is produced only when every image has had its upload
\* dispatched and every dispatched upload has finished; none is cancelled
\* or skipped because a sibling failed.
C2_WaitsForAllUploads ==
    (pc = "done" /\ proc.err = "none")
    => /\ Len(tasks) = Len(images)
       /\ \A i \in 1..Len(tasks) : Finished(i)
       /\ Len(output) = Len(tasks)

C2_Witness ==
    /\ pc = "done"
    /\ Len(tasks) >= 2
    /\ tasks[output[1]] = "err"
    /\ \E i \in 1..Len(tasks) : tasks[i] = "ok"

\* C3: when at least one upload of the request failed, the request ends in
\* the 500 storage error, never in a success, and every object whose
\* upload succeeded is in the store under its key: nothing is rolled back.
C3_FailureKeepsUploadedObjects ==
    (pc = "done" /\ \E i \in 1..Len(tasks) : tasks[i] = "err")
    => /\ response.status = 500
       /\ response.err = "S3"
       /\ \A i \in 1..Len(tasks) : tasks[i] = "ok" => images[i] \in store

C3_Witness ==
    /\ pc = "done"
    /\ Len(tasks) = 2
    /\ tasks[1] = "ok"
    /\ tasks[2] = "err"
    /\ images[1] \in store
    /\ response.status = 500

ScaleOutOfRange ==
    /\ query.scale # None
    /\ \/ query.scale[1].nan
       \/ query.scale[1].v < ScaleMin
       \/ query.scale[1].v > ScaleMax

PagesSyntaxInvalid == query.pages # None /\ Malformed(query.pages[1])

\* the blocking task returned the result of process_pdf
RenderReturned == proc.err \notin {"pending", "JoinError"}

\* no pdfium library could be bound
BindingFailed == proc.err = "Pdfium" /\ ~proc.loadAttempted

\* C4: a request that passed the token check and supplied a file, whose
\* scale is outside [0.1, 10.0] or whose pages expression is syntactically
\* invalid, fails with InvalidScale or InvalidPageRange without the
\* document load being attempted, whatever the uploaded bytes are.
C4_ParametersBeforeLoad ==
    (/\ pc = "done"
     /\ multipart = "file"
     /\ RenderReturned
     /\ ~BindingFailed
     /\ (ScaleOutOfRange \/ PagesSyntaxInvalid))
    => /\ response.err \in {"InvalidScale", "InvalidPageRange"}
       /\ response.status = 400
       /\ ~proc.loadAttempted

\* C5: once the token check has run, the request is rejected with
\* Unauthorized (401) exactly when a secret is configured and the token is
\* absent or differs from it; otherwise it goes on.
C5_AccessGate ==
    pc # "gate"
    => ((response.err = "Unauthorized" /\ response.status = 401 /\ pc = "done")
        <=> (secret # None /\ (query.token = None \/ query.token # secret)))

C5_Witness ==
    /\ secret # None
    /\ query.token # None
    /\ query.token # secret
    /\ response.status = 401

\* C6: a request rejected by the token check has read no multipart field,
\* loaded and rendered nothing, dispatched no upload and ended; the step
\* that rejects it leaves the object store as it was.
C6_RejectedHasNoEffect ==
    /\ [](response.err = "Unauthorized"
          => /\ ~fieldRead
             /\ proc = NoProc
             /\ images = <<>>
             /\ tasks = <<>>
             /\ pc = "done")
    /\ [][response'.err = "Unauthorized" => store' = store]_vars

C6_Witness ==
    /\ response.err = "Unauthorized"
    /\ multipart = "file"
    /\ body = Pdf(1)
    /\ store # {}

\* C7: with a page selection supplied, the document loaded and the render
\* task returned: if a selected index is >= the page count (any selection
\* on a 0-page document included) the request fails with InvalidPageRange
\* (400) after the load, nothing is rendered and nothing uploaded; if every
\* selected index is below the page count, validation passes.
C7_SelectionWithinDocument ==
    (/\ pc = "done"
     /\ RenderReturned
     /\ proc.loaded
     /\ query.pages # None
     /\ WellFormed(query.pages[1]))
    => IF \E idx \in Denotes(query.pages[1]) : idx >= body.pages
       THEN /\ response.err = "InvalidPageRange"
            /\ response.status = 400
            /\ proc.loadAttempted
            /\ proc.rendered = {}
            /\ images = <<>>
            /\ tasks = <<>>
       ELSE response.err # "InvalidPageRange"

C7_Witness ==
    /\ pc = "done"
    /\ query.pages = Some(<<"9">>)
    /\ body = Pdf(MaxPages)
    /\ proc.loaded
    /\ response.err = "InvalidPageRange"

\* the pages parameter is absent, or well formed and within the document
PagesValid ==
    \/ query.pages = None
    \/ /\ WellFormed(query.pages[1])
       /\ \A idx \in Denotes(query.pages[1]) : idx < body.pages

\* C11: for a loaded document and a valid or absent page selection, a
\* present scale is accepted exactly when 0.1 <= scale <= 10.0, both ends
\* included; any other present scale fails the request with InvalidScale
\* (400) and nothing is rendered or uploaded; an absent scale is accepted.
C11_ScaleRange ==
    (pc = "done" /\ RenderReturned /\ proc.loaded /\ PagesValid)
    => IF ScaleOutOfRange
       THEN /\ response.err = "InvalidScale"
            /\ response.status = 400
            /\ proc.rendered = {}
            /\ images = <<>>
            /\ tasks = <<>>
       ELSE proc.err = "none" /\ response.err # "InvalidScale"

C11_Witness ==
    /\ pc = "done"
    /\ query.scale = Some(F32(ScaleMax))
    /\ query.pages = Some(<<"1", "-", "2">>)
    /\ response.status = 200
    /\ Len(response.images) = 2

\* the failure that ended the request, by the stage that failed
TerminalFailure ==
    IF secret # None /\ (query.token = None \/ query.token # secret)
    THEN "Unauthorized"
    ELSE IF multipart = "empty" THEN "FieldNotFound"
    ELSE IF multipart \in {"bad_field", "bad_bytes"} THEN "malformed-form"
    ELSE IF proc.err = "JoinError" THEN "render-task-failure"
    ELSE IF proc.err = "Pdfium" THEN "DocumentLoadError"
    ELSE IF proc.err = "InvalidPageRange" THEN "InvalidPageRange"
    ELSE IF proc.err = "InvalidScale" THEN "InvalidScale"
    ELSE IF \E i \in 1..Len(tasks) : tasks[i] = "err" THEN "StorageError"
    ELSE "none"

\* the status the error taxonomy gives a failure
TaxonomyStatus(failure) ==
    CASE failure = "Unauthorized" -> 401
      [] failure \in {"FieldNotFound", "malformed-form", "InvalidPageRange",
                      "InvalidScale"} -> 400
      [] failure \in {"DocumentLoadError", "render-task-failure",
                      "StorageError"} -> 500

\* C13: every terminal failure of a request gets the status of the error
\* taxonomy, with a body that holds a message and no success flag; the
\* 2xx response with success: true is produced only when no stage failed.
C13_ErrorTaxonomy ==
    pc = "done"
    => IF TerminalFailure = "none"
       THEN response.status = 200 /\ response.success
       ELSE /\ response.status = TaxonomyStatus(TerminalFailure)
            /\ ~response.success
            /\ response.message # "none"
            /\ response.images = <<>>

C13_Witness ==
    /\ pc = "done"
    /\ TerminalFailure = "DocumentLoadError"
    /\ body = Junk
    /\ multipart = "file"
    /\ response.status = 500

\* the failures of the stages before the fan-out
EarlyFailures ==
    {"Unauthorized", "FieldNotFound", "malformed-form", "InvalidPageRange",
     "InvalidScale", "DocumentLoadError", "render-task-failure"}

\* C15: within a request the field is extracted before process_pdf runs,
\* and process_pdf has returned the whole image sequence before any upload
\* is dispatched; a request that fails in the token check, the field
\* extraction, the parameter validation, the document load or the render
\* task dispatches no upload at all.
C15_StageOrder ==
    /\ proc # NoProc
       => fieldRead /\ multipart = "file" /\ pc \in {"spawn", "join", "done"}
    /\ (tasks # <<>> \/ puts # <<>>)
       => proc.err = "none" /\ pc \in {"spawn", "join", "done"}
    /\ (pc = "done" /\ TerminalFailure \in EarlyFailures)
       => tasks = <<>> /\ puts = <<>>

C15_Witness ==
    /\ pc = "spawn"
    /\ Len(images) = 2
    /\ Len(tasks) = 1
    /\ puts # <<>>

\* the pages the request selects in its document
SelectedPages ==
    IF query.pages = None THEN 0..(body.pages - 1) ELSE Denotes(query.pages[1])

SetMin(S) == CHOOSE m \in S : \A x \in S : m <= x

\* the keys of the pages of S, in ascending page order
RECURSIVE KeysAscending(_)
KeysAscending(S) ==
    IF S = {} THEN <<>>
    ELSE <<KeyOf(SetMin(S))>> \o KeysAscending(S \ {SetMin(S)})

\* process_pdf returned, for a loaded document and valid parameters
RenderStageReached ==
    /\ RenderReturned
    /\ proc.loaded
    /\ PagesValid
    /\ ~ScaleOutOfRange

\* C16: a page whose render or encode fails never fails the request: the
\* page is left out, and process_pdf returns exactly the selected pages
\* that rendered, in ascending page order; when no page renders the request
\* succeeds with an empty images list and no upload is made.
C16_FailedPagesOmitted ==
    RenderStageReached
    => /\ proc.err = "none"
       /\ proc.rendered = SelectedPages
       /\ proc.ok \subseteq SelectedPages
       /\ images = KeysAscending(proc.ok)
       /\ pc = "done" => response.err \in {"none", "S3"}
       /\ (pc = "done" /\ proc.ok = {})
          => /\ response.status = 200
             /\ response.success
             /\ response.images = <<>>
             /\ tasks = <<>>
             /\ puts = <<>>

C16_Witness ==
    /\ pc = "done"
    /\ body = Pdf(MaxPages)
    /\ query.pages = None
    /\ proc.ok = (0..(MaxPages - 1)) \ {1}
    /\ Len(images) = MaxPages - 1
    /\ response.status = 200

\* the number of put operations issued under key
PutsOf(key) == Cardinality({k \in 1..Len(puts) : puts[k] = key})

\* the upload task of the i-th image has finished, well or not
UploadFinished(i) == i <= Len(tasks) /\ tasks[i] # "running"

\* C17: one put operation is issued per rendered image, under that image's
\* key: an image whose upload has finished, successfully or not, has had
\* exactly one put, an image whose upload has not finished has had none, and
\* when the request ends after rendering the number of puts equals the
\* number of images.
C17_OnePutPerImage ==
    /\ Len(puts) <= Len(images)
    /\ \A k \in 1..Len(puts) : \E i \in 1..Len(images) : puts[k] = images[i]
    /\ \A i \in 1..Len(images) :
         PutsOf(images[i]) = IF UploadFinished(i) THEN 1 ELSE 0
    /\ pc = "done" => Len(puts) = Len(images)

C17_Witness ==
    /\ pc = "done"
    /\ Len(images) = 2
    /\ Len(puts) = 2
    /\ tasks[1] = "err"
    /\ response.err = "S3"

\* the stage of the request: Gated from the token check to the end of the
\* field extraction, Parsed while process_pdf runs, Rendered once it has
\* returned its images, Uploaded when join_all has every result, and then
\* Responded; Failed is the end of a request that stopped before Uploaded
Stage ==
    CASE pc \in {"gate", "next_field", "bytes"} -> "Gated"
      [] pc = "render" -> "Parsed"
      [] pc = "spawn" -> "Rendered"
      [] pc = "join" -> IF JoinSetEmpty(tasks, output) THEN "Uploaded"
                        ELSE "Rendered"
      [] pc = "done" -> IF response.err \in {"none", "S3"} THEN "Responded"
                        ELSE "Failed"

StageEdges ==
    {<<"Gated", "Parsed">>, <<"Parsed", "Rendered">>,
     <<"Rendered", "Uploaded">>, <<"Uploaded", "Responded">>,
     <<"Gated", "Failed">>, <<"Parsed", "Failed">>, <<"Rendered", "Failed">>}

StageStep == Stage' = Stage \/ <<Stage, Stage'>> \in StageEdges

Terminal == Stage \in {"Responded", "Failed"}

\* C18: a request moves Gated -> Parsed -> Rendered -> Uploaded -> Responded
\* one stage at a time, a stage before Uploaded may go to Failed instead, no
\* stage is left for an earlier one and a terminal stage is never left; the
\* response is produced on entering the terminal stage and never replaced;
\* and when the render task and the uploads run to their end the request
\* reaches a terminal stage.
C18_StateMachine ==
    /\ [][StageStep]_vars
    /\ [][Terminal => Stage' = Stage /\ response' = response]_vars
    /\ [](Terminal <=> response # NoResponse)
    /\ [](Stage = "Uploaded" => \A i \in 1..Len(images) : UploadFinished(i))
    /\ <>Terminal

C18_Witness ==
    /\ Stage = "Responded"
    /\ Len(images) = 2
    /\ response.err = "S3"
    /\ store # {}

(***************************************************************************)
(* Properties of PageSelection::from_str (SpecParse)                       *)
(***************************************************************************)
\* C8: every malformed expression (a token that is no number, a page 0, a
\* range with a zero endpoint or with A > B) is rejected with
\* InvalidPageRange; an expression that is empty or all skipped tokens is
\* rejected with "no valid pages specified"; no selection, and never the
\* empty set, is produced in these cases.
C8_MalformedRejected ==
    parsePc = "done"
    => /\ Malformed(parseIn) => ~parseOut.ok /\ parseOut.pages = {}
       /\ AllSkipped(parseIn) => parseOut.msg = "no valid pages specified"
       /\ parseOut.ok => parseOut.pages # {}

C8_Witness ==
    /\ parsePc = "done"
    /\ parseIn = <<"1", ",", "0">>
    /\ ~parseOut.ok

\* C9: for every well-formed expression the result is exactly the set of
\* N-1 for its single tokens N and of A-1..B-1 for its range tokens A-B.
C9_ParsedSet ==
    (parsePc = "done" /\ WellFormed(parseIn))
    => parseOut.ok /\ parseOut.pages = Denotes(parseIn)

C9_Witness ==
    /\ parsePc = "done"
    /\ parseIn = <<"2", ",", "4", "-", "5">>
    /\ parseOut.pages = {1, 3, 4}

(***************************************************************************)
(* Properties of the page selection in process_pdf (SpecSel)               *)
(***************************************************************************)
Ascending(imgs) == \A k \in 1..(Len(imgs) - 1) : imgs[k][2] < imgs[k + 1][2]

\* C10: two expressions that name the same pages (the tokens permuted, a
\* token repeated, ranges overlapping) give the same sequence of images;
\* the images are in ascending page order, each page at most once.
C10_SetSemantics ==
    selPc = "done"
    => /\ Denotes(JoinTokens(selA)) = Denotes(JoinTokens(selB))
          => selOut[1].images = selOut[2].images
       /\ Ascending(selOut[1].images)
       /\ Ascending(selOut[2].images)

C10_Witness ==
    /\ selPc = "done"
    /\ selA = <<<<"2">>, <<"1">>>>
    /\ selB = <<<<"1", "-", "2">>, <<"2">>>>
    /\ Len(selOut[1].images) = 2
    /\ selOut[1].images = selOut[2].images

(***************************************************************************)
(* Properties of the object keys (SpecKey)                                 *)
(***************************************************************************)
SameDocumentFormatPages ==
    /\ keyA.bytes = keyB.bytes
    /\ keyA.query.format = keyB.query.format
    /\ keyA.query.pages = keyB.query.pages

\* the page index a name was made for
PageOf(name) == name[2]

\* C12: two requests with the same document bytes, format and page
\* selection name the image of each page alike, whatever their scale and
\* token: a page that both render gets one and the same key, and when the
\* same pages render the two key sequences are identical.
C12_KeysDeterministic ==
    (keyPc = "done" /\ SameDocumentFormatPages)
    => /\ \A i \in 1..Len(keyOut[1].images), j \in 1..Len(keyOut[2].images) :
            PageOf(keyOut[1].images[i]) = PageOf(keyOut[2].images[j])
            => keyOut[1].images[i] = keyOut[2].images[j]
       /\ keyOk[1] = keyOk[2] => keyOut[1].images = keyOut[2].images

C12_Witness ==
    /\ keyPc = "done"
    /\ SameDocumentFormatPages
    /\ keyA.query.scale = Some(F32(ScaleMin))
    /\ keyB.query.scale = None
    /\ keyA.query.token # keyB.query.token
    /\ keyA.query.pages = Some(<<"2", ",", "1">>)
    /\ Len(keyOut[1].images) = 2
    /\ keyOut[1].images = keyOut[2].images

\* the extension table of the key format, one entry per variant
PublishedExtensions ==
    {<<"Png", <<"p", "n", "g">>>>,
     <<"Jpeg", <<"j", "p", "g">>>>,
     <<"Gif", <<"g", "i", "f">>>>,
     <<"WebP", <<"w", "e", "b", "p">>>>,
     <<"Pnm", <<"p", "n", "m">>>>,
     <<"Tiff", <<"t", "i", "f", "f">>>>,
     <<"Tga", <<"t", "g", "a">>>>,
     <<"Bmp", <<"b", "m", "p">>>>,
     <<"Ico", <<"i", "c", "o">>>>,
     <<"Hdr", <<"h", "d", "r">>>>,
     <<"OpenExr", <<"e", "x", "r">>>>,
     <<"Farbfeld", <<"f", "f">>>>,
     <<"Avif", <<"a", "v", "i", "f">>>>,
     <<"Qoi", <<"q", "o", "i">>>>}

\* what a name of the first or second call is the name of
TripleOf(req, name) == <<req.bytes, PageOf(name), req.query.format>>

\* C14: the extension of each of the 14 formats is the one of the
\* published table and no two formats share one, so the key texts
\* "{fingerprint}-{pageIndex}.{extension}" of two different (fingerprint,
\* page index, format) triples never coincide.
C14_ExtensionsInjective ==
    keyPc = "done"
    => /\ <<keyA.query.format, extension(keyA.query.format)>> \in PublishedExtensions
       /\ extension(keyA.query.format) = extension(keyB.query.format)
          => keyA.query.format = keyB.query.format
       /\ \A i \in 1..Len(keyOut[1].images), j \in 1..Len(keyOut[2].images) :
            KeyText(keyOut[1].images[i]) = KeyText(keyOut[2].images[j])
            => TripleOf(keyA, keyOut[1].images[i]) = TripleOf(keyB, keyOut[2].images[j])

C14_Witness ==
    /\ keyPc = "done"
    /\ keyA.bytes = keyB.bytes
    /\ keyA.query.format = "OpenExr"
    /\ keyB.query.format = "Hdr"
    /\ Len(keyOut[1].images) >= 1
    /\ Len(keyOut[2].images) >= 1
    /\ PageOf(keyOut[1].images[1]) = PageOf(keyOut[2].images[1])
    /\ KeyText(keyOut[1].images[1]) # KeyText(keyOut[2].images[1])

====
